---- MODULE Spec2Model ----
(***************************************************************************)
(* Model of vica/prodigal.py: codon counting per reading-frame offset,     *)
(* merging of count maps, the dense/CLR transformer and the streaming      *)
(* aggregator count_codons.                                                *)
(*                                                                         *)
(* Conventions                                                             *)
(*   - a Python str is a sequence of one-character strings;                *)
(*   - a codon is a str of length 3, a dict is a function on its key set;  *)
(*   - an optional value is None == <<>> or Some(x) == <<x>>;              *)
(*   - a call either returns (Ok) or raises (Raise);                       *)
(*   - counts on the dense vector are kept in hundredths, so that the      *)
(*     pseudocount 0.01 is the integer 1;                                  *)
(*   - math.log(x/gm) is kept symbolically as the pair of x and the        *)
(*     multiset of entries that defines the geometric mean gm.             *)
(***************************************************************************)
EXTENDS Integers, Sequences, FiniteSets, TLC

VARIABLES
  pc,             \* "loop", "done" (count_codons returned) or "raised"
  yielded,        \* the records seqio_iterator has yielded so far
  base_id,        \* loop variable of count_codons, None while unbound
  last_base_id,   \* local of count_codons
  codon_dict,     \* local of count_codons: the open accumulator
  rows,           \* the rows written to csv_writer_instance
  handed,         \* the codon_dict argument of each record_line call
  call,           \* arguments of a single call of a pure function
  ret,            \* what that call computed, None before it
  heap,           \* the dict objects by address, where references are kept
  cd_ref,         \* the address the local codon_dict is bound to
  ncalls          \* calls of count_codons started so far

vars == <<pc, yielded, base_id, last_base_id, codon_dict, rows, handed,
          call, ret, heap, cd_ref, ncalls>>

\* the variables of the reference-level model
refvars == <<heap, cd_ref, ncalls>>

(***************************************************************************)
(* Bounds                                                                  *)
(***************************************************************************)
MaxRecords == 3
MaxSeqLen == 6
MaxCount == 2
MaxIdLen == 4

(***************************************************************************)
(* Python values                                                           *)
(***************************************************************************)
None == <<>>
Some(x) == <<x>>
Ok(v) == [exc |-> "none", val |-> v]
Raise(e) == [exc |-> e, val |-> <<>>]
EmptyDict == <<>>

Range(s) == {s[k] : k \in DOMAIN s}
Min(a, b) == IF a < b THEN a ELSE b

RECURSIVE Concat(_)
Concat(ss) == IF ss = <<>> THEN <<>> ELSE Head(ss) \o Concat(Tail(ss))

StringsUpTo(alphabet, n) == UNION {[1..k -> alphabet] : k \in 0..n}

(***************************************************************************)
(* codon_list, lines 16-30: 15 lines of 4 codons                           *)
(***************************************************************************)
Cod(a, b, c) == <<a, b, c>>
codon_list ==
  << Cod("T","T","T"), Cod("T","C","T"), Cod("T","A","T"), Cod("T","G","T"),
     Cod("T","T","C"), Cod("T","C","C"), Cod("T","A","C"), Cod("T","G","C"),
     Cod("T","T","A"), Cod("T","C","A"), Cod("T","A","A"), Cod("T","G","A"),
     Cod("T","T","G"), Cod("T","C","G"), Cod("T","A","G"), Cod("T","G","G"),
     Cod("C","T","T"), Cod("C","C","T"), Cod("C","A","T"), Cod("C","G","T"),
     Cod("C","T","C"), Cod("C","C","C"), Cod("C","A","C"), Cod("C","G","C"),
     Cod("C","T","A"), Cod("C","C","A"), Cod("C","A","A"), Cod("C","G","A"),
     Cod("C","T","G"), Cod("C","C","G"), Cod("C","A","G"), Cod("C","G","G"),
     Cod("A","T","T"), Cod("A","C","T"), Cod("A","A","T"), Cod("A","G","T"),
     Cod("A","T","C"), Cod("A","C","C"), Cod("A","A","C"), Cod("A","G","C"),
     Cod("A","T","A"), Cod("A","C","A"), Cod("A","A","A"), Cod("A","G","A"),
     Cod("A","T","G"), Cod("A","C","G"), Cod("A","A","G"), Cod("A","G","G"),
     Cod("G","T","T"), Cod("G","C","T"), Cod("G","A","T"), Cod("G","G","T"),
     Cod("G","T","C"), Cod("G","C","C"), Cod("G","A","C"), Cod("G","G","C"),
     Cod("G","T","G"), Cod("G","C","G"), Cod("G","A","G"), Cod("G","G","G") >>

(***************************************************************************)
(* clr, lines 34-39                                                        *)
(***************************************************************************)
\* geomean: a.prod()**(1.0/len(a)), kept as the multiset of the entries
geomean(vector) ==
  [v \in Range(vector) |-> Cardinality({k \in DOMAIN vector : vector[k] = v})]

\* math.log(x/gm), kept as the pair (x, gm)
LogRatio(x, gm) == [num |-> x, gm |-> gm]

clr(composition) ==
  LET gm == geomean(composition)
  IN  [k \in DOMAIN composition |-> LogRatio(composition[k], gm)]

(***************************************************************************)
(* _gene_to_codon, lines 54-64.  No statement of the try block raises      *)
(* ValueError on a str, so the except branch is never taken; when          *)
(* len(genestring) < 3 the function falls off its end and returns None.    *)
(***************************************************************************)
_gene_to_codon(genestring) ==
  IF Len(genestring) >= 3
  THEN LET n  == (Len(genestring) + 2) \div 3
           f1 == [k \in 1..n |->
                    SubSeq(genestring, 3 * (k - 1) + 1,
                           Min(3 * k, Len(genestring)))]
       IN  IF Len(f1[Len(f1)]) /= 3
           THEN Some(SubSeq(f1, 1, Len(f1) - 1))
           ELSE Some(f1)
  ELSE None

(***************************************************************************)
(* _codon_to_dict, lines 66-76.  Iterating over None raises TypeError.     *)
(***************************************************************************)
RECURSIVE Tally(_, _)
Tally(framen, cdict) ==
  IF framen = <<>> THEN cdict
  ELSE LET codon == Head(framen)
           next  == IF codon \notin DOMAIN cdict
                    THEN [c \in DOMAIN cdict \cup {codon} |->
                            IF c = codon THEN 1 ELSE cdict[c]]
                    ELSE [cdict EXCEPT ![codon] = @ + 1]
       IN  Tally(Tail(framen), next)

\* genestring[offset:]
Slice(genestring, offset) == SubSeq(genestring, offset + 1, Len(genestring))

_codon_to_dict(genestring, offset) ==
  LET framen == _gene_to_codon(Slice(genestring, offset))
  IN  IF framen = None
      THEN Raise("TypeError")
      ELSE Ok(Tally(framen[1], EmptyDict))

(***************************************************************************)
(* _parse_prodigal_id_from_biopython, lines 87-89:                         *)
(* '_'.join(str(id).split('_')[:-1])                                       *)
(***************************************************************************)
RECURSIVE SplitFrom(_, _, _)
\* str.split(sep): cur is the segment being read; always >= 1 segment
SplitFrom(s, sep, cur) ==
  IF s = <<>> THEN <<cur>>
  ELSE IF Head(s) = sep
       THEN <<cur>> \o SplitFrom(Tail(s), sep, <<>>)
       ELSE SplitFrom(Tail(s), sep, Append(cur, Head(s)))

Split(s, sep) == SplitFrom(s, sep, <<>>)

RECURSIVE Join(_, _)
\* sep.join(parts)
Join(sep, parts) ==
  IF parts = <<>> THEN <<>>
  ELSE IF Len(parts) = 1 THEN parts[1]
       ELSE parts[1] \o <<sep>> \o Join(sep, Tail(parts))

\* variant of _parse_prodigal_id_from_biopython: str(id).split('_')[0]
_parse_first_segment(id) == Split(id, "_")[1]

_parse_prodigal_id_from_biopython(id) ==
  LET parts == Split(id, "_")
  IN  Join("_", SubSeq(parts, 1, Len(parts) - 1))

(***************************************************************************)
(* count_dict_to_clr_array, lines 91-101                                   *)
(***************************************************************************)
Scale == 100
pseudocount == 1

\* variant of output_list: line 100 left out, no pseudocount added
output_list_raw(count_dict, codons) ==
  [k \in DOMAIN codons |->
     (IF codons[k] \in DOMAIN count_dict THEN count_dict[codons[k]] ELSE 0)
       * Scale]

\* lines 94-100: the dense vector handed to clr, in hundredths
output_list(count_dict, codons) ==
  [k \in DOMAIN codons |->
     (IF codons[k] \in DOMAIN count_dict THEN count_dict[codons[k]] ELSE 0)
       * Scale + pseudocount]

count_dict_to_clr_array(count_dict, codons) ==
  clr(output_list(count_dict, codons))

(***************************************************************************)
(* dsum, lines 103-108                                                     *)
(***************************************************************************)
\* variant of AddInto: ret[k] = v, a later dict overwrites the count
AddIntoOverwrite(acc, d) ==
  [k \in DOMAIN acc \cup DOMAIN d |->
     IF k \in DOMAIN d THEN d[k] ELSE acc[k]]

\* lines 106-107 for one dict d: ret[k] += v on a defaultdict(int)
AddInto(acc, d) ==
  [k \in DOMAIN acc \cup DOMAIN d |->
     (IF k \in DOMAIN acc THEN acc[k] ELSE 0)
       + (IF k \in DOMAIN d THEN d[k] ELSE 0)]

RECURSIVE dsumFrom(_, _)
dsumFrom(acc, dicts) ==
  IF dicts = <<>> THEN acc
  ELSE dsumFrom(AddInto(acc, Head(dicts)), Tail(dicts))

dsum(dicts) == dsumFrom(EmptyDict, dicts)

(***************************************************************************)
(* count_codon_in_gene, lines 110-124                                      *)
(***************************************************************************)
\* variant of count_codon_in_gene: d2[i] = d1[i] also when i is in cdict
count_codon_in_gene_nomerge(record, cdict) ==
  LET d1 == [i \in 0..2 |-> _codon_to_dict(record.seq, i)]
  IN  IF \E i \in 0..2 : d1[i].exc /= "none"
      THEN Raise("TypeError")
      ELSE Ok([i \in 0..2 |-> d1[i].val])

count_codon_in_gene(record, cdict) ==
  LET seq == record.seq
      d1  == [i \in 0..2 |-> _codon_to_dict(seq, i)]
  IN  IF \E i \in 0..2 : d1[i].exc /= "none"
      THEN Raise(d1[CHOOSE i \in 0..2 :
                      /\ d1[i].exc /= "none"
                      /\ \A j \in 0..(i - 1) : d1[j].exc = "none"].exc)
      ELSE Ok([i \in 0..2 |->
                 IF i \in DOMAIN cdict
                 THEN dsum(<<cdict[i], d1[i].val>>)
                 ELSE d1[i].val])

(***************************************************************************)
(* count_codons.record_line, lines 129-135: the row handed to writerow     *)
(***************************************************************************)
record_line(id, cd) ==
  LET l0 == count_dict_to_clr_array(cd[0], codon_list)
      l1 == count_dict_to_clr_array(cd[1], codon_list)
      l2 == count_dict_to_clr_array(cd[2], codon_list)
  IN  <<id>> \o (l0 \o l1 \o l2)

(***************************************************************************)
(* Inputs of count_codons                                                  *)
(***************************************************************************)
\* identifiers: two genes of contig a, one of contig b, one without "_"
IdPool ==
  { <<"a","_","1">>, <<"a","_","2">>, <<"b","_","1">>, <<"a">> }
\* sequences: one shorter than a codon, two sharing some codons per offset
SeqPool ==
  { <<"A","G">>,
    <<"A","A","G","A","A">>,
    <<"A","A","G","A","A","G","G">> }
Records == [id : IdPool, seq : SeqPool]

(***************************************************************************)
(* count_codons, lines 127-151                                             *)
(***************************************************************************)
Init ==
  /\ pc = "loop"
  /\ yielded = <<>>
  /\ base_id = None
  /\ last_base_id = None
  /\ codon_dict = EmptyDict
  /\ rows = <<>>
  /\ handed = <<>>
  /\ call = None
  /\ ret = None
  /\ heap = <<>>
  /\ cd_ref = 0
  /\ ncalls = 1

\* variant of SameContig: base_id is last_base_id, never true of the
\* freshly joined str
SameContigIdentity(bid, last) == FALSE

\* line 142: base_id == last_base_id, on the str/None values
SameContig(bid, last) == bid = last

\* line 145: the values base_id is not last_base_id can take.  Objects that
\* compare unequal are distinct; whether two equal str values are one
\* object is up to the interpreter
IsNot(bid, last) == IF bid = last THEN BOOLEAN ELSE {TRUE}

\* lines 140-149: one iteration of the for loop on the next record
LoopIteration ==
  /\ pc = "loop"
  /\ Len(yielded) < MaxRecords
  /\ \E record \in Records :
       LET bid == Some(_parse_prodigal_id_from_biopython(record.id))
       IN  \E is_not \in IsNot(bid, last_base_id) :
           /\ yielded' = Append(yielded, record)
           /\ base_id' = bid
           /\ IF SameContig(bid, last_base_id)
              THEN LET r == count_codon_in_gene(record, codon_dict)
                   IN  /\ rows' = rows
                       /\ handed' = handed
                       /\ last_base_id' = last_base_id
                       /\ IF r.exc = "none"
                          THEN codon_dict' = r.val /\ pc' = "loop"
                          ELSE codon_dict' = codon_dict /\ pc' = "raised"
              ELSE IF ~is_not
              THEN \* neither branch: the record is dropped
                   /\ pc' = "loop"
                   /\ UNCHANGED <<rows, handed, last_base_id, codon_dict>>
              ELSE LET emit == codon_dict /= EmptyDict
                       r    == count_codon_in_gene(record, EmptyDict)
                   IN  /\ rows' = IF emit
                                  THEN Append(rows,
                                         record_line(last_base_id, codon_dict))
                                  ELSE rows
                       /\ handed' = IF emit THEN Append(handed, codon_dict)
                                    ELSE handed
                       /\ IF r.exc = "none"
                          THEN /\ codon_dict' = r.val
                               /\ last_base_id' = bid
                               /\ pc' = "loop"
                          ELSE /\ codon_dict' = codon_dict
                               /\ last_base_id' = last_base_id
                               /\ pc' = "raised"
  /\ UNCHANGED <<call, ret, refvars>>

\* lines 150-151: the iterator is exhausted
EndOfInput ==
  /\ pc = "loop"
  /\ pc' = "done"
  /\ IF codon_dict /= EmptyDict
     THEN /\ rows' = Append(rows, record_line(base_id, codon_dict))
          /\ handed' = Append(handed, codon_dict)
     ELSE UNCHANGED <<rows, handed>>
  /\ UNCHANGED <<yielded, base_id, last_base_id, codon_dict, call, ret,
                 refvars>>

Next == LoopIteration \/ EndOfInput

Spec == Init /\ [][Next]_vars

(***************************************************************************)
(* Single calls of the pure functions on bounded arguments                 *)
(***************************************************************************)
Alphabet == {"A", "G"}

Idle ==
  /\ yielded = <<>>
  /\ base_id = None
  /\ last_base_id = None
  /\ codon_dict = EmptyDict
  /\ rows = <<>>
  /\ handed = <<>>
  /\ heap = <<>>
  /\ cd_ref = 0
  /\ ncalls = 0

\* _codon_to_dict(genestring, offset), lines 66-76, with the tokens of line 69
InitCodon ==
  /\ pc = "call"
  /\ call \in [genestring : StringsUpTo(Alphabet, MaxSeqLen), offset : 0..2]
  /\ ret = None
  /\ Idle

CallCodon ==
  /\ pc = "call"
  /\ pc' = "returned"
  /\ ret' = Some([framen |-> _gene_to_codon(Slice(call.genestring, call.offset)),
                  cdict  |-> _codon_to_dict(call.genestring, call.offset)])
  /\ UNCHANGED <<yielded, base_id, last_base_id, codon_dict, rows, handed,
                 call, refvars>>

SpecCodon == InitCodon /\ [][CallCodon]_vars

\* dsum(*dicts), lines 103-108, on count maps a, b, c
DsumKeys == {Cod("A","A","G"), Cod("G","G","G")}
CountMaps == UNION {[K -> 0..MaxCount] : K \in SUBSET DsumKeys}

InitDsum ==
  /\ pc = "call"
  /\ call \in [a : CountMaps, b : CountMaps, c : CountMaps]
  /\ ret = None
  /\ Idle

CallDsum ==
  /\ pc = "call"
  /\ pc' = "returned"
  /\ ret' = Some([ab   |-> dsum(<<call.a, call.b>>),
                  ba   |-> dsum(<<call.b, call.a>>),
                  ab_c |-> dsum(<<dsum(<<call.a, call.b>>), call.c>>),
                  a_bc |-> dsum(<<call.a, dsum(<<call.b, call.c>>)>>),
                  abc  |-> dsum(<<call.a, call.b, call.c>>),
                  a_e  |-> dsum(<<call.a, EmptyDict>>)])
  /\ UNCHANGED <<yielded, base_id, last_base_id, codon_dict, rows, handed,
                 call, refvars>>

SpecDsum == InitDsum /\ [][CallDsum]_vars

\* _parse_prodigal_id_from_biopython, lines 87-89, on the identifiers of two
\* records, and the test of line 142 on the two results
IdAlphabet == {"a", "1", "_"}

InitParse ==
  /\ pc = "call"
  /\ call \in [id1 : StringsUpTo(IdAlphabet, MaxIdLen),
               id2 : StringsUpTo(IdAlphabet, MaxIdLen)]
  /\ ret = None
  /\ Idle

CallParse ==
  /\ pc = "call"
  /\ pc' = "returned"
  /\ LET b1 == _parse_prodigal_id_from_biopython(call.id1)
         b2 == _parse_prodigal_id_from_biopython(call.id2)
     IN  ret' = Some([b1 |-> b1, b2 |-> b2,
                      same |-> SameContig(Some(b2), Some(b1))])
  /\ UNCHANGED <<yielded, base_id, last_base_id, codon_dict, rows, handed,
                 call, refvars>>

SpecParse == InitParse /\ [][CallParse]_vars

\* count_dict_to_clr_array, lines 94-100, on count maps whose keys are
\* codons of codon_list, an upper-case codon outside it, a lower-case and an
\* ambiguous-base triplet
DenseKeys ==
  { Cod("A","A","G"), Cod("G","G","G"), Cod("G","A","A"),
    Cod("a","a","g"), Cod("N","N","N") }
DenseMaps == UNION {[K -> 1..MaxCount] : K \in SUBSET DenseKeys}

InitDense ==
  /\ pc = "call"
  /\ call \in [count_dict : DenseMaps]
  /\ ret = None
  /\ Idle

CallDense ==
  /\ pc = "call"
  /\ pc' = "returned"
  /\ ret' = Some(output_list(call.count_dict, codon_list))
  /\ UNCHANGED <<yielded, base_id, last_base_id, codon_dict, rows, handed,
                 call, refvars>>

SpecDense == InitDense /\ [][CallDense]_vars

(***************************************************************************)
(* Reference-level model: Python binds names to dict objects.  heap[a] is  *)
(* the content of the dict at address a; an outer dict maps 0, 1, 2 to the *)
(* addresses of count maps.  Every {} and every dict(...) allocates.       *)
(***************************************************************************)
MaxCalls == 2

\* the dict built once for the default of cdict at line 110
DefaultRef == 1

Put(d, k, v) == [x \in DOMAIN d \cup {k} |-> IF x = k THEN v ELSE d[x]]
Got(e, h, r) == [exc |-> e, heap |-> h, ref |-> r]

\* the value of the outer dict at address r
Deref(h, r) == [i \in DOMAIN h[r] |-> h[h[r][i]]]

\* _codon_to_dict, lines 66-76: cdict = {} is a new object, filled in place
ref_codon_to_dict(h, genestring, offset) ==
  LET framen == _gene_to_codon(Slice(genestring, offset))
      cdict  == Len(h) + 1
  IN  IF framen = None
      THEN Got("TypeError", Append(h, EmptyDict), 0)
      ELSE Got("none", Append(h, Tally(framen[1], EmptyDict)), cdict)

\* dsum, lines 103-108: ret is a new defaultdict, dict(ret) a new dict
ref_dsum(h, refs) ==
  LET total == dsum([k \in DOMAIN refs |-> h[refs[k]]])
  IN  Got("none", h \o <<total, total>>, Len(h) + 2)

RECURSIVE FillD1(_, _, _, _)
\* lines 117-118 from offset i on: d1[i] = _codon_to_dict(seq, i)
FillD1(h, d1, seq, i) ==
  IF i > 2 THEN Got("none", h, d1)
  ELSE LET r == ref_codon_to_dict(h, seq, i)
       IN  IF r.exc /= "none" THEN r
           ELSE FillD1([r.heap EXCEPT ![d1] = Put(@, i, r.ref)], d1, seq, i + 1)

RECURSIVE FillD2(_, _, _, _, _)
\* lines 119-123 from offset i on
FillD2(h, d1, d2, cdict, i) ==
  IF i > 2 THEN Got("none", h, d2)
  ELSE IF i \in DOMAIN h[cdict]
       THEN LET r == ref_dsum(h, <<h[cdict][i], h[d1][i]>>)
            IN  FillD2([r.heap EXCEPT ![d2] = Put(@, i, r.ref)],
                       d1, d2, cdict, i + 1)
       ELSE FillD2([h EXCEPT ![d2] = Put(@, i, h[d1][i])], d1, d2, cdict, i + 1)

RECURSIVE FillInPlace(_, _, _, _)
\* lines 119-123 from offset i on, writing into cdict itself
FillInPlace(h, d1, cdict, i) ==
  IF i > 2 THEN Got("none", h, cdict)
  ELSE IF i \in DOMAIN h[cdict]
       THEN LET r == ref_dsum(h, <<h[cdict][i], h[d1][i]>>)
            IN  FillInPlace([r.heap EXCEPT ![cdict] = Put(@, i, r.ref)],
                            d1, cdict, i + 1)
       ELSE FillInPlace([h EXCEPT ![cdict] = Put(@, i, h[d1][i])],
                        d1, cdict, i + 1)

\* variant of ref_count_codon_in_gene: no d2, cdict is updated and returned
ref_count_codon_in_gene_inplace(h, record, cdict) ==
  LET d1 == Len(h) + 1
      r1 == FillD1(Append(h, EmptyDict), d1, record.seq, 0)
  IN  IF r1.exc /= "none" THEN r1
      ELSE FillInPlace(r1.heap, d1, cdict, 0)

\* count_codon_in_gene, lines 110-124, on the dict at address cdict
ref_count_codon_in_gene(h, record, cdict) ==
  LET d1 == Len(h) + 1
      d2 == Len(h) + 2
      r1 == FillD1(h \o <<EmptyDict, EmptyDict>>, d1, record.seq, 0)
  IN  IF r1.exc /= "none" THEN r1
      ELSE FillD2(r1.heap, d1, d2, cdict, 0)

\* records of the reference-level runs: one gene of each of two contigs
RefRecords ==
  {r \in Records : r.id \in {<<"a","_","1">>, <<"b","_","1">>}}
\* count_codon_in_gene reads record.seq only
DefaultCallRecords == {r \in Records : r.id = <<"a","_","1">>}

\* calls of count_codon_in_gene made so far, by the loop and from outside
Spent == Len(yielded) + Len(call)

\* count_codons is entered, lines 138-139; the default of line 110 exists
InitRef ==
  /\ pc = "loop"
  /\ yielded = <<>>
  /\ base_id = None
  /\ last_base_id = None
  /\ codon_dict = EmptyDict
  /\ rows = <<>>
  /\ handed = <<>>
  /\ call = None
  /\ ret = None
  /\ heap = <<EmptyDict, EmptyDict>>
  /\ cd_ref = 2
  /\ ncalls = 1

\* lines 140-149 with references; codon_dict follows the value-level model
RefLoopIteration ==
  /\ pc = "loop"
  /\ Spent < MaxRecords
  /\ \E record \in RefRecords :
       LET bid == Some(_parse_prodigal_id_from_biopython(record.id))
       IN  \E is_not \in IsNot(bid, last_base_id) :
           /\ yielded' = Append(yielded, record)
           /\ base_id' = bid
           /\ IF SameContig(bid, last_base_id)
              THEN LET r == ref_count_codon_in_gene(heap, record, cd_ref)
                       v == count_codon_in_gene(record, codon_dict)
                   IN  /\ rows' = rows
                       /\ handed' = handed
                       /\ last_base_id' = last_base_id
                       /\ heap' = r.heap
                       /\ IF r.exc = "none"
                          THEN /\ cd_ref' = r.ref
                               /\ codon_dict' = v.val
                               /\ pc' = "loop"
                          ELSE /\ cd_ref' = cd_ref
                               /\ codon_dict' = codon_dict
                               /\ pc' = "raised"
              ELSE IF ~is_not
              THEN /\ pc' = "loop"
                   /\ UNCHANGED <<rows, handed, last_base_id, codon_dict,
                                  heap, cd_ref>>
              ELSE LET emit  == heap[cd_ref] /= EmptyDict
                       fresh == Len(heap) + 1
                       r     == ref_count_codon_in_gene(
                                  Append(heap, EmptyDict), record, fresh)
                       v     == count_codon_in_gene(record, EmptyDict)
                   IN  /\ rows' = IF emit
                                  THEN Append(rows,
                                         record_line(last_base_id,
                                                     Deref(heap, cd_ref)))
                                  ELSE rows
                       /\ handed' = IF emit
                                    THEN Append(handed, Deref(heap, cd_ref))
                                    ELSE handed
                       /\ heap' = r.heap
                       /\ IF r.exc = "none"
                          THEN /\ cd_ref' = r.ref
                               /\ codon_dict' = v.val
                               /\ last_base_id' = bid
                               /\ pc' = "loop"
                          ELSE /\ cd_ref' = cd_ref
                               /\ codon_dict' = codon_dict
                               /\ last_base_id' = last_base_id
                               /\ pc' = "raised"
  /\ UNCHANGED <<call, ret, ncalls>>

\* lines 150-151
RefEndOfInput ==
  /\ pc = "loop"
  /\ pc' = "done"
  /\ IF heap[cd_ref] /= EmptyDict
     THEN /\ rows' = Append(rows, record_line(base_id, Deref(heap, cd_ref)))
          /\ handed' = Append(handed, Deref(heap, cd_ref))
     ELSE UNCHANGED <<rows, handed>>
  /\ UNCHANGED <<yielded, base_id, last_base_id, codon_dict, call, ret,
                 refvars>>

\* count_codons is called again after it returned or raised, lines 138-139
RefCallAgain ==
  /\ pc \in {"done", "raised"}
  /\ ncalls < MaxCalls
  /\ ncalls' = ncalls + 1
  /\ pc' = "loop"
  /\ base_id' = None
  /\ last_base_id' = None
  /\ heap' = Append(heap, EmptyDict)
  /\ cd_ref' = Len(heap) + 1
  /\ codon_dict' = EmptyDict
  /\ UNCHANGED <<yielded, rows, handed, call, ret>>

\* another caller uses count_codon_in_gene(record), cdict left to its default
RefCallDefault ==
  /\ call = None
  /\ Spent < MaxRecords
  /\ \E record \in DefaultCallRecords :
       LET r == ref_count_codon_in_gene(heap, record, DefaultRef)
       IN  /\ call' = Some(record)
           /\ ret' = Some([exc |-> r.exc, ref |-> r.ref])
           /\ heap' = r.heap
  /\ UNCHANGED <<pc, yielded, base_id, last_base_id, codon_dict, rows,
                 handed, cd_ref, ncalls>>

RefNext ==
  RefLoopIteration \/ RefEndOfInput \/ RefCallAgain \/ RefCallDefault

SpecRef == InitRef /\ [][RefNext]_vars

(***************************************************************************)
(* Vocabulary of the properties                                            *)
(***************************************************************************)
Finished == pc \in {"done", "raised"}

\* the records whose loop iteration completed
Taken ==
  IF pc = "raised" THEN SubSeq(yielded, 1, Len(yielded) - 1) ELSE yielded

BaseIds(recs) ==
  [k \in DOMAIN recs |-> _parse_prodigal_id_from_biopython(recs[k].id)]

\* positions that open a maximal run of equal contig ids
RunStarts(ids) == {k \in DOMAIN ids : k = 1 \/ ids[k] /= ids[k - 1]}
\* positions at which a contig id occurs for the first time
FirstSeen(ids) == {k \in DOMAIN ids : \A j \in 1..(k - 1) : ids[j] /= ids[k]}
Contiguous(ids) == RunStarts(ids) = FirstSeen(ids)
NumRuns(ids) == Cardinality(RunStarts(ids))

RECURSIVE PickFrom(_, _, _)
\* the elements of s at the positions of P, from position k on, in order
PickFrom(s, P, k) ==
  IF k > Len(s) THEN <<>>
  ELSE (IF k \in P THEN <<s[k]>> ELSE <<>>) \o PickFrom(s, P, k + 1)

RunStart(ids, n) ==
  CHOOSE k \in RunStarts(ids) :
    Cardinality({j \in RunStarts(ids) : j <= k}) = n
RunEnd(ids, n) ==
  IF n = NumRuns(ids) THEN Len(ids) ELSE RunStart(ids, n + 1) - 1
\* the records of the n-th maximal run
Run(recs, n) ==
  SubSeq(recs, RunStart(BaseIds(recs), n), RunEnd(BaseIds(recs), n))

\* the key of each row written, and what the keys should be
Keys == [k \in DOMAIN rows |-> rows[k][1]]
SomeAll(ids) == [k \in DOMAIN ids |-> Some(ids[k])]

\* count(seq, o) read off the sequence by position: how often codon c
\* stands at a position o + 3j with a full triplet
CodonAt(seq, o, j) == SubSeq(seq, o + 3 * j + 1, o + 3 * j + 3)
Frames(seq, o) == {j \in 0..((Len(seq) - o) \div 3 - 1) : o + 3 * j + 3 <= Len(seq)}
Occurrences(seq, o, c) ==
  Cardinality({j \in Frames(seq, o) : CodonAt(seq, o, j) = c})

RECURSIVE TotalOf(_, _, _)
\* occurrences of codon c at offset o summed over the records recs
TotalOf(recs, o, c) ==
  IF recs = <<>> THEN 0
  ELSE Occurrences(Head(recs).seq, o, c) + TotalOf(Tail(recs), o, c)

AllCodons == [1..3 -> Alphabet \cup {"T"}]

\* count map m is exactly the per-codon totals of recs at offset o
IsTotal(m, recs, o) ==
  /\ DOMAIN m \subseteq AllCodons
  /\ \A c \in AllCodons :
       IF c \in DOMAIN m THEN m[c] = TotalOf(recs, o, c) /\ m[c] > 0
       ELSE TotalOf(recs, o, c) = 0

(***************************************************************************)
(* C1: when the records of each contig are contiguous, count_codons writes *)
(* exactly one row per distinct contig id, in first-seen order.            *)
(***************************************************************************)
C1_OneRowPerContig ==
  (Finished /\ Contiguous(BaseIds(yielded)))
    => Keys = SomeAll(PickFrom(BaseIds(yielded), FirstSeen(BaseIds(yielded)), 1))

(***************************************************************************)
(* C2: the count maps handed to the transformer for a row are, for each    *)
(* offset, the key-wise sum of the counts of every record of that contig's *)
(* run and nothing else.                                                   *)
(***************************************************************************)
C2_RowIsMergeOfItsRun ==
  /\ Len(handed) = Len(rows)
  /\ Len(handed) <= NumRuns(BaseIds(Taken))
  /\ \A k \in DOMAIN handed :
       /\ DOMAIN handed[k] = 0..2
       /\ \A o \in 0..2 : IsTotal(handed[k][o], Run(Taken, k), o)

C2_Witness ==
  /\ pc = "done"
  /\ Len(handed) = 2
  /\ Len(Run(Taken, 2)) = 2
  /\ \E c \in DOMAIN handed[2][0] : handed[2][0][c] >= 3

(***************************************************************************)
(* C3: for every non-empty input stream the row of the final contig is     *)
(* written, exactly once, keyed by its id, after all earlier rows.         *)
(***************************************************************************)
C3_FinalContigFlushed ==
  (Finished /\ yielded /= <<>>)
    => /\ rows /= <<>>
       /\ Len(rows) = NumRuns(BaseIds(yielded))
       /\ rows[Len(rows)][1] = Some(BaseIds(yielded)[Len(yielded)])

(***************************************************************************)
(* C4: no row is written for a contig without records: each row is keyed   *)
(* by the id of its own non-empty run of consumed records, the first       *)
(* record writes no row and an empty stream writes none.                   *)
(***************************************************************************)
C4_NoRowWithoutRecords ==
  /\ Len(rows) <= NumRuns(BaseIds(Taken))
  /\ \A k \in DOMAIN rows :
       /\ Run(Taken, k) /= <<>>
       /\ rows[k][1] = Some(BaseIds(Taken)[RunStart(BaseIds(Taken), k)])
  /\ (pc = "loop" /\ Len(yielded) <= 1) => rows = <<>>
  /\ yielded = <<>> => rows = <<>>

C4_Witness ==
  /\ pc = "loop"
  /\ Len(yielded) = 2
  /\ Len(rows) = 1
  /\ codon_dict /= EmptyDict

(***************************************************************************)
(* C5: every row is the contig id followed by exactly 192 values, 64 per   *)
(* offset in codon_list order.                                             *)
(***************************************************************************)
C5_RowHas192Values ==
  \A k \in DOMAIN rows :
    /\ Len(rows[k]) = 1 + 192
    /\ \A o \in 0..2 :
         SubSeq(rows[k], 2 + 64 * o, 1 + 64 * (o + 1))
           = count_dict_to_clr_array(handed[k][o], codon_list)

(***************************************************************************)
(* C6: a sequence too short to tokenize yields an empty codon list without *)
(* an exception, so a single record of length < 3 gives exactly one row    *)
(* whose dense vectors are all-pseudocount.                                *)
(***************************************************************************)
C6_ShortSequenceGivesPseudocountRow ==
  (Finished /\ Len(yielded) = 1 /\ Len(yielded[1].seq) < 3)
    => /\ pc = "done"
       /\ Len(rows) = 1
       /\ \A k \in 2..Len(rows[1]) :
            rows[1][k] = LogRatio(pseudocount,
                                  geomean([j \in 1..Len(codon_list) |-> pseudocount]))

(***************************************************************************)
(* C7: tokenizing s of length L at offset o returns floor((L-o)/3) chunks  *)
(* of three characters whose concatenation is s[o : o + 3*floor((L-o)/3)]. *)
(***************************************************************************)
C7_TokenizeLengthAndContent ==
  pc = "returned" =>
    LET s == call.genestring
        o == call.offset
        n == (Len(s) - o) \div 3
    IN  /\ ret[1].framen /= None
        /\ Len(ret[1].framen[1]) = n
        /\ \A k \in 1..n : Len(ret[1].framen[1][k]) = 3
        /\ Concat(ret[1].framen[1]) = SubSeq(s, o + 1, o + 3 * n)

(***************************************************************************)
(* C8: dsum is the key-wise integer sum with absent keys as 0; it is       *)
(* commutative and associative and has {} as right identity.               *)
(***************************************************************************)
Get(m, k) == IF k \in DOMAIN m THEN m[k] ELSE 0

C8_DsumIsKeywiseSum ==
  pc = "returned" =>
    LET r == ret[1]
    IN  /\ DOMAIN r.ab = DOMAIN call.a \cup DOMAIN call.b
        /\ \A k \in DsumKeys : Get(r.ab, k) = Get(call.a, k) + Get(call.b, k)
        /\ r.ab = r.ba
        /\ r.ab_c = r.a_bc
        /\ r.abc = r.ab_c
        /\ r.a_e = call.a

C8_Witness ==
  /\ pc = "returned"
  /\ DOMAIN call.a \cap DOMAIN call.b /= {}
  /\ DOMAIN call.a /= DOMAIN call.b
  /\ \E k \in DOMAIN call.a \cap DOMAIN call.b : call.a[k] /= call.b[k]
  /\ call.c /= EmptyDict

(***************************************************************************)
(* C9: a record identifier without an underscore separator is a fatal      *)
(* error: the record is not given a contig id, accumulated or emitted.     *)
(***************************************************************************)
C9_MissingUnderscoreIsFatal ==
  \A k \in DOMAIN yielded :
    "_" \notin Range(yielded[k].id) => (pc = "raised" /\ k = Len(yielded))

(***************************************************************************)
(* C10: boundaries are detected by adjacency: the number of rows equals    *)
(* the number of maximal runs of equal contig ids, and a contig id that    *)
(* reappears gets a further row with counts of the later run only.         *)
(***************************************************************************)
C10_OneRowPerRun ==
  Finished =>
    /\ Len(rows) = NumRuns(BaseIds(yielded))
    /\ \A k \in DOMAIN rows :
         /\ rows[k][1] = Some(BaseIds(yielded)[RunStart(BaseIds(yielded), k)])
         /\ \A o \in 0..2 : IsTotal(handed[k][o], Run(yielded, k), o)

(***************************************************************************)
(* C11: the parent contig id is the identifier without its last            *)
(* underscore-delimited segment: for <contig_id>_<gene_index> it is        *)
(* exactly <contig_id>, also when <contig_id> contains underscores, and    *)
(* two such records share an accumulator exactly when their identifiers    *)
(* agree up to the last underscore.                                        *)
(***************************************************************************)
HasSeparator(id) == "_" \in Range(id)
LastSeparator(id) ==
  CHOOSE k \in DOMAIN id :
    id[k] = "_" /\ \A j \in (k + 1)..Len(id) : id[j] /= "_"
UpToLastSeparator(id) == SubSeq(id, 1, LastSeparator(id) - 1)

C11_ContigIdIsPrefixBeforeLastSeparator ==
  pc = "returned" =>
    LET r == ret[1]
    IN  /\ HasSeparator(call.id1) => r.b1 = UpToLastSeparator(call.id1)
        /\ HasSeparator(call.id2) => r.b2 = UpToLastSeparator(call.id2)
        /\ (HasSeparator(call.id1) /\ HasSeparator(call.id2))
             => (r.same <=>
                   UpToLastSeparator(call.id1) = UpToLastSeparator(call.id2))

C11_Witness ==
  /\ pc = "returned"
  /\ HasSeparator(call.id1) /\ HasSeparator(call.id2)
  /\ HasSeparator(UpToLastSeparator(call.id1))
  /\ LastSeparator(call.id1) < Len(call.id1)
  /\ call.id1 /= call.id2
  /\ ret[1].same

(***************************************************************************)
(* C12: the dense vector built before the CLR step has exactly 64 entries, *)
(* entry k being the count of codon_list[k] (0 if absent) plus the         *)
(* pseudocount; keys outside the codon enumeration change no entry.        *)
(***************************************************************************)
\* count map m without its keys outside the enumeration codons
Restrict(m, codons) == [c \in DOMAIN m \cap Range(codons) |-> m[c]]

C12_DenseVectorHas64Entries ==
  pc = "returned" =>
    /\ Len(ret[1]) = 64
    /\ \A k \in DOMAIN ret[1] :
         ret[1][k] = Get(call.count_dict, codon_list[k]) * Scale + pseudocount
    /\ ret[1] = output_list(Restrict(call.count_dict, codon_list), codon_list)

(***************************************************************************)
(* C13: every entry passed to clr is strictly positive, so the geometric   *)
(* mean is positive and every x/gm whose logarithm is taken is positive.   *)
(***************************************************************************)
\* the entries x of the composition behind a clr value, and those under gm
ClrDefined(e) == e.num > 0 /\ \A v \in DOMAIN e.gm : v > 0

C13_ClrInputsPositive ==
  \A k \in DOMAIN rows :
    /\ \A j \in 2..Len(rows[k]) : ClrDefined(rows[k][j])
    /\ \A o \in 0..2 :
         \A x \in Range(output_list(handed[k][o], codon_list)) : x > 0

C13_Witness ==
  /\ rows /= <<>>
  /\ \E j \in 2..Len(rows[1]) : rows[1][j].num = pseudocount
  /\ \E j \in 2..Len(rows[1]) : rows[1][j].num > Scale

(***************************************************************************)
(* The three-state machine of the specification (its transition rules 1-4) *)
(* as the reference of C14.  A row of the machine is the contig id with    *)
(* the accumulator that is finalized into 3 * 64 values.                   *)
(***************************************************************************)
\* rule 1: the identifier without its last underscore-delimited segment
MachineContigId(id) ==
  IF HasSeparator(id) THEN UpToLastSeparator(id) ELSE <<>>

\* count(sequence, offset): a sequence too short to tokenize counts nothing
MachineCount(seq, o) ==
  [c \in {CodonAt(seq, o, j) : j \in Frames(seq, o)} |-> Occurrences(seq, o, c)]

\* merge(mapA, mapB): key-wise sum, absent keys as 0
MachineMerge(a, b) ==
  [c \in DOMAIN a \cup DOMAIN b |-> Get(a, c) + Get(b, c)]

MachineInit == [state |-> "NO_CONTIG", id |-> <<>>, acc |-> <<>>, out |-> <<>>]

\* rules 2 and 3 on one record
MachineStep(m, record) ==
  LET id     == MachineContigId(record.id)
      counts == [o \in 0..2 |-> MachineCount(record.seq, o)]
  IN  IF m.state = "ACCUMULATING" /\ id = m.id
      THEN [m EXCEPT !.acc = [o \in 0..2 |-> MachineMerge(m.acc[o], counts[o])]]
      ELSE [state |-> "ACCUMULATING", id |-> id, acc |-> counts,
            out |-> IF m.state = "ACCUMULATING"
                    THEN Append(m.out, [id |-> m.id, acc |-> m.acc])
                    ELSE m.out]

RECURSIVE MachineRun(_, _)
MachineRun(m, recs) ==
  IF recs = <<>> THEN m ELSE MachineRun(MachineStep(m, Head(recs)), Tail(recs))

\* rule 4: the flush at end of input
MachineFinish(m) ==
  [state |-> "DONE", id |-> m.id, acc |-> m.acc,
   out |-> IF m.state = "ACCUMULATING"
           THEN Append(m.out, [id |-> m.id, acc |-> m.acc])
           ELSE m.out]

\* the loop state (last_base_id, codon_dict) is the machine state m
LoopStateIs(m) ==
  /\ (last_base_id = None) <=> (codon_dict = EmptyDict)
  /\ (m.state = "NO_CONTIG") <=> (last_base_id = None)
  /\ (m.state = "NO_CONTIG") <=> (yielded = <<>>)
  /\ m.state /= "NO_CONTIG" =>
       /\ DOMAIN codon_dict = 0..2
       /\ last_base_id = Some(m.id)
       /\ last_base_id =
            Some(_parse_prodigal_id_from_biopython(yielded[Len(yielded)].id))
       /\ codon_dict = m.acc

\* the rows written are the rows of the machine
RowsAre(out, width) ==
  /\ Len(rows) = Len(out)
  /\ \A k \in DOMAIN rows :
       /\ k \in DOMAIN out
       /\ rows[k][1] = Some(out[k].id)
       /\ handed[k] = out[k].acc
       /\ Len(rows[k]) = 1 + width

(***************************************************************************)
(* C14: the loop state of count_codons refines the machine: NO_CONTIG is   *)
(* last_base_id = None and codon_dict = {}, only before the first record;  *)
(* ACCUMULATING has the keys 0, 1, 2 and the id of the most recent record; *)
(* and for every stream the rows written are those of the rules 1-4.       *)
(***************************************************************************)
C14_RefinesStateMachine ==
  /\ pc \in {"loop", "done"} => LoopStateIs(MachineRun(MachineInit, yielded))
  /\ Finished =>
       RowsAre(MachineFinish(MachineRun(MachineInit, yielded)).out, 3 * 64)

(***************************************************************************)
(* C15: the accumulator is never aliased or mutated from outside:          *)
(* count_codon_in_gene and dsum leave the dict passed in and the shared    *)
(* default {} unchanged and return a freshly built mapping, so a new       *)
(* contig starts from empty counts and every call of count_codons starts   *)
(* from the same state.                                                    *)
(***************************************************************************)
\* the addresses a dict at address r refers to
Inner(h, r) == Range(h[r])

NoAliasing ==
  /\ heap[DefaultRef] = EmptyDict
  /\ cd_ref /= DefaultRef
  /\ DefaultRef \notin Inner(heap, cd_ref)
  /\ Deref(heap, cd_ref) = codon_dict
  /\ (pc = "loop" /\ last_base_id = None) =>
       (heap[cd_ref] = EmptyDict /\ base_id = None)
  /\ (ret /= None /\ ret[1].exc = "none") =>
       /\ ret[1].ref /= cd_ref
       /\ Inner(heap, ret[1].ref) \cap Inner(heap, cd_ref) = {}
       /\ Deref(heap, ret[1].ref) = count_codon_in_gene(call[1], EmptyDict).val

\* a step changes no dict that existed before it, and a mapping it returns
\* is new down to its count maps
FreshAndUnchanged ==
  /\ \A a \in DOMAIN heap : heap'[a] = heap[a]
  /\ cd_ref' /= cd_ref =>
       /\ cd_ref' \notin DOMAIN heap
       /\ Inner(heap', cd_ref') \cap DOMAIN heap = {}
  /\ (ret' /= ret /\ ret'[1].exc = "none") =>
       /\ ret'[1].ref \notin DOMAIN heap
       /\ Inner(heap', ret'[1].ref) \cap DOMAIN heap = {}

C15_AccumulatorNotAliasedOrMutated ==
  [] NoAliasing /\ [][FreshAndUnchanged]_vars

C15_Witness ==
  /\ ncalls = 2
  /\ pc = "loop"
  /\ last_base_id = None
  /\ Len(yielded) = 2
  /\ yielded[1].id = yielded[2].id
  /\ Len(rows) = 1
  /\ call /= None
  /\ ret[1].exc = "none"

(***************************************************************************)
(* C16: when processing a record raises, the rows written for earlier      *)
(* contigs stay in the sink and the contig of the failing record, with its *)
(* records consumed before, is never written: the output is a strict       *)
(* prefix of the rows of the error-free run.                               *)
(***************************************************************************)
\* the rows of the run in which no record fails: those of the machine, put
\* through the transformer of record_line
ErrorFreeRows ==
  LET out == MachineFinish(MachineRun(MachineInit, yielded)).out
  IN  [k \in DOMAIN out |-> record_line(Some(out[k].id), out[k].acc)]

StrictPrefixOfErrorFree ==
  pc = "raised" =>
    /\ Len(rows) = NumRuns(BaseIds(yielded)) - 1
    /\ Len(rows) < Len(ErrorFreeRows)
    /\ rows = SubSeq(ErrorFreeRows, 1, Len(rows))

\* a row once written stays, and nothing is written after the error
RowsStay ==
  /\ Len(rows') >= Len(rows)
  /\ SubSeq(rows', 1, Len(rows)) = rows
  /\ pc = "raised" => rows' = rows

C16_ErrorLeavesStrictPrefix ==
  [] StrictPrefixOfErrorFree /\ [][RowsStay]_vars

C16_Witness ==
  /\ pc = "raised"
  /\ Len(yielded) = 3
  /\ BaseIds(yielded)[1] /= BaseIds(yielded)[2]
  /\ BaseIds(yielded)[2] = BaseIds(yielded)[3]
  /\ Len(rows) = 1

====
